---- MODULE Spec2Model ----
(***************************************************************************)
(* A model of the AI operations assistant's orchestration pipeline:        *)
(* Orchestrator.run driving PlannerAgent, ExecutorAgent (first pass and    *)
(* targeted retry) and VerifierAgent, one run of one Orchestrator object.  *)
(* Further specifications exercise parts of the program on their own: the  *)
(* Verifier, the Executor, the API cache and the LLM client.               *)
(*                                                                         *)
(* Python's Optional values are modelled as sequences of length at most 1: *)
(* None is <<>> and a present value x is <<x>>.  The float                 *)
(* completeness_score successful_steps / total_steps is kept as the exact  *)
(* fraction [num, den]; its comparisons with 0.9 and 0.5 are done by       *)
(* cross-multiplication, which agrees with the IEEE comparison for every   *)
(* step count below 2^49.                                                  *)
(***************************************************************************)
EXTENDS Naturals, Sequences, FiniteSets, TLC

VARIABLES
    pc,               \* position of the run inside Orchestrator.run
    state,            \* Orchestrator.state, as get_state returns it
    max_retries,      \* Orchestrator.max_retries
    llm_response,     \* the answer generate_structured has yet to give
    plan,             \* plan.steps of the ExecutionPlan in hand
    step_idx,         \* position of ExecutorAgent.run's loop in plan.steps
    completed_steps,  \* ExecutorAgent.run's local completed_steps
    results,          \* ExecutorAgent.results (aliased by the run's results)
    output,           \* the latest FinalOutput, None before the first one
    retry_count,      \* _handle_retries' retry_count
    steps_to_retry,   \* the part of retry_steps' steps_to_retry still to do
    retry_results,    \* retry_steps' local retry_results
    result,           \* the OrchestratorResult returned, None while running
    calls,            \* history: every registry.execute the Executor made
    succeeded,        \* history: steps whose tool call reported success
    retry_args,       \* history: the lists passed to retry_steps
    verifier_calls,   \* history: number of verifier.run invocations
    verified,         \* history: number of verifier.run calls that returned
    executor_runs,    \* history: number of executor.run invocations
    planned,          \* history: how the Planner came by its plan
    failure,          \* history: the exception run's handler caught
    tool_faults,      \* history: dispatches in which a registered tool raised
    api_cache,        \* utils.cache's _api_cache: key -> entry
    now,              \* the clock the TTLCache reads, in seconds
    cache_log,        \* history: every call of a cache-wrapped operation
    cache_metrics,    \* utils.cache's _cache_metrics: hits and misses
    cache_tasks,      \* the calls of wrapped operations now in progress
    request_count,    \* LLMClient.request_count
    generate_attempt,    \* attempt number of the retry around generate
    structured_attempt,  \* attempt number of the retry around
                         \* generate_structured
    llm_log           \* history: the outcome of every request to the model

\* the variables of the cache and of the LLM client, which a run of the
\* orchestration pipeline as modelled here leaves alone
cache_vars == <<api_cache, now, cache_log, cache_metrics, cache_tasks>>
llm_vars == <<request_count, generate_attempt, structured_attempt, llm_log>>

\* the variables of the orchestration pipeline other than pc
run_vars == <<state, max_retries, llm_response, plan, step_idx,
              completed_steps, results, output, retry_count, steps_to_retry,
              retry_results, result, calls, succeeded, retry_args,
              verifier_calls, verified, executor_runs, planned, failure,
              tool_faults>>

vars == <<pc, state, max_retries, llm_response, plan, step_idx,
          completed_steps, results, output, retry_count, steps_to_retry,
          retry_results, result, calls, succeeded, retry_args,
          verifier_calls, verified, executor_runs, planned, failure,
          tool_faults, api_cache, now, cache_log, cache_metrics,
          cache_tasks, request_count,
          generate_attempt, structured_attempt, llm_log>>

(***************************************************************************)
(* Bounds of the model.                                                    *)
(***************************************************************************)
\* longest plan the LLM answers with steps of every tool and dependency shape
MaxSteps == 3
\* longest plan of independent steps the LLM answers
MaxLongSteps == 8
\* largest max_retries an Orchestrator is constructed with
MaxRetriesArg == 2
\* most dispatches that raise instead of returning a ToolResult in one run
MaxToolFaults == 1
\* longest StepResult sequence handed to the Verifier on its own
MaxVerifyLen == 10

\* most calls of cache-wrapped operations in one behaviour
MaxCacheCalls == 2
\* latest time of the cache's clock, in seconds
MaxClock == 400

\* longest plan handed to the Executor on its own
MaxExecSteps == 3

\* longest plan an LLM answer holds when the Planner's validation is run on
\* its own
MaxRawSteps == 3

\* longest StepResult sequence handed to the Verifier with payloads of
\* every kind
MaxOutputLen == 3

\* Orchestrator.__init__'s default max_retries
DefaultMaxRetries == 2

(***************************************************************************)
(* Optional values and small sequence helpers.                             *)
(***************************************************************************)
None == <<>>
Some(x) == <<x>>

Min(a, b) == IF a <= b THEN a ELSE b

\* s[:n]
Take(s, n) == SubSeq(s, 1, Min(n, Len(s)))

(***************************************************************************)
(* OrchestratorState and the messages the code fixes.                      *)
(***************************************************************************)
IDLE == "idle"
PLANNING == "planning"
EXECUTING == "executing"
VERIFYING == "verifying"
RETRYING == "retrying"
COMPLETE == "complete"
ERROR == "error"

EmptyPlanError == "Could not create an execution plan for this task"


(***************************************************************************)
(* The tool registry: get_tool_registry registers exactly these three.     *)
(***************************************************************************)
RegisteredTools == {"github", "weather", "news"}

\* str.lower on the tool names an LLM answer carries in this model
Lower(t) ==
    CASE t = "GIT" -> "git"
      [] t = "GitHub" -> "github"
      [] OTHER -> t

\* PlannerAgent._validate_plan's tool_mapping.get(key, default)
ToolMappingGet(key, default) ==
    CASE key = "github_tool" -> "github"
      [] key = "weather_tool" -> "weather"
      [] key = "news_tool" -> "news"
      [] key = "git" -> "github"
      [] key = "openweathermap" -> "weather"
      [] key = "newsapi" -> "news"
      [] OTHER -> default

(***************************************************************************)
(* PlannerAgent._validate_plan: keep the steps whose tool is registered or *)
(* maps to a registered tool (rewriting the tool), then renumber 1..N.     *)
(* depends_on is not touched.                                              *)
(***************************************************************************)
MappedTool(step) == ToolMappingGet(Lower(step.tool), step.tool)

KeepsStep(step, available_tools) ==
    \/ step.tool \in available_tools
    \/ MappedTool(step) \in available_tools

\* mutant: a step kept for its alias keeps the name the LLM gave it
RepairNothing(step, available_tools) == step

RepairStep(step, available_tools) ==
    IF step.tool \in available_tools THEN step
    ELSE [step EXCEPT !.tool = MappedTool(step)]

RECURSIVE ValidSteps(_, _)
ValidSteps(steps, available_tools) ==
    IF steps = <<>> THEN <<>>
    ELSE IF KeepsStep(Head(steps), available_tools)
         THEN <<RepairStep(Head(steps), available_tools)>>
                  \o ValidSteps(Tail(steps), available_tools)
         ELSE ValidSteps(Tail(steps), available_tools)

\* mutant: resequencing also clears the dependency references
RenumberClearingDepends(steps) ==
    [i \in 1..Len(steps) |->
        [steps[i] EXCEPT !.step_number = i, !.depends_on = <<>>]]

Renumber(steps) ==
    [i \in 1..Len(steps) |-> [steps[i] EXCEPT !.step_number = i]]

ValidatePlan(steps, available_tools) ==
    Renumber(ValidSteps(steps, available_tools))

(***************************************************************************)
(* The answers generate_structured can give the Planner: a schema-valid    *)
(* ExecutionPlan, or a failure (transport failure after the retries, no    *)
(* JSON in the answer, JSON that fails schema validation).                 *)
(***************************************************************************)
LLMFailures ==
    {[ok |-> FALSE, steps |-> <<>>, error |-> e] :
        e \in {"LLM request failed", "Could not extract valid JSON",
               "Failed to parse LLM response as ExecutionPlan"}}

\* a step as the LLM writes it; its own step_number is overwritten later
RawStep(n, t, d) ==
    [step_number |-> n, tool |-> t, action |-> "search", depends_on |-> d]

RichTools == {"github", "git", "foo"}
RichDepends == {<<>>, <<1>>, <<2>>}

RichPlans ==
    UNION {{[i \in 1..k |-> RawStep(i, tl[i], dp[i])] :
               tl \in [1..k -> RichTools], dp \in [1..k -> RichDepends]} :
           k \in 0..MaxSteps}

\* the plan of MaxLongSteps independent steps, long enough for a partial
\* verification with more failed results than one retry attempt takes
LongPlans ==
    {[i \in 1..MaxLongSteps |-> RawStep(i, "github", <<>>)]}

PlanResponse(p) == [ok |-> TRUE, steps |-> p, error |-> ""]

\* The inputs of a run, as <<max_retries, the LLM's answer>>: every small
\* plan and every failure, under each max_retries up to MaxRetriesArg
RunInputs ==
    (0..MaxRetriesArg)
        \X (LLMFailures \cup {PlanResponse(p) : p \in RichPlans})

\* the long plan, under each max_retries up to the default every caller
\* runs with
LongRunInputs ==
    (0..DefaultMaxRetries) \X {PlanResponse(p) : p \in LongPlans}

(***************************************************************************)
(* Dispatch through the registry.  ToolRegistry.execute raises KeyError    *)
(* for an unknown name; a registered tool returns a ToolResult or, against *)
(* its contract, raises.                                                   *)
(***************************************************************************)
\* BaseTool's ToolResult, as the tools' _timed_result builds it
ToolResultData(success, data, error, ms) ==
    [success |-> success, data |-> data, error |-> error,
     execution_time_ms |-> ms, cached |-> FALSE]

\* what a registered tool's execute can do in this model
ToolBehaviours ==
    {[raised |-> FALSE, exc |-> "",
      tool_result |-> ToolResultData(TRUE, Some(<<"payload">>), None, 5)],
     [raised |-> FALSE, exc |-> "",
      tool_result |-> ToolResultData(FALSE, None, Some("api error"), 5)],
     [raised |-> TRUE, exc |-> "tool crashed",
      tool_result |-> ToolResultData(FALSE, None, None, 0)]}

\* str(KeyError(msg)) is the repr of msg
KeyErrorStr(msg) == "'" \o msg \o "'"

RegistryExecute(tool_name) ==
    IF tool_name \notin RegisteredTools
    THEN {[raised |-> TRUE,
           exc |-> KeyErrorStr("Tool " \o tool_name \o " not found"),
           tool_result |-> ToolResultData(FALSE, None, None, 0)]}
    ELSE ToolBehaviours

\* the dispatches of step the model explores: a registered tool raises at
\* most MaxToolFaults times in a run, an unknown name always raises
Dispatches(step) ==
    {o \in RegistryExecute(step.tool) :
        (o.raised /\ step.tool \in RegisteredTools) =>
            tool_faults < MaxToolFaults}

(***************************************************************************)
(* ExecutorAgent.                                                          *)
(***************************************************************************)
\* mutant: only a step without dependencies is ever run
DependenciesMetNoDeps(step, completed) == step.depends_on = <<>>

\* mutant: the dependency check lets every step through
DependenciesAlwaysMet(step, completed) == TRUE

\* ExecutorAgent._dependencies_met
DependenciesMet(step, completed) ==
    IF step.depends_on = <<>> THEN TRUE
    ELSE \A k \in 1..Len(step.depends_on) : step.depends_on[k] \in completed

\* the StepResult recorded for a dispatch that returned tool_result
StepResultOf(step, tool_result) ==
    [step_number |-> step.step_number,
     tool_result |->
        [tool |-> step.tool, action |-> step.action,
         success |-> tool_result.success, data |-> tool_result.data,
         error |-> tool_result.error,
         execution_time_ms |-> tool_result.execution_time_ms,
         cached |-> tool_result.cached]]

\* mutant: the failed result keeps no trace of the fault
FailedStepResultNoMessage(step, exc) ==
    [step_number |-> step.step_number,
     tool_result |->
        [tool |-> step.tool, action |-> step.action, success |-> FALSE,
         data |-> None, error |-> None, execution_time_ms |-> 0,
         cached |-> FALSE]]

\* the StepResult ExecutorAgent.run records for a dispatch that raised exc
FailedStepResult(step, exc) ==
    [step_number |-> step.step_number,
     tool_result |->
        [tool |-> step.tool, action |-> step.action, success |-> FALSE,
         data |-> None, error |-> Some(exc), execution_time_ms |-> 0,
         cached |-> FALSE]]

\* the entry of the call history for one registry.execute
CallRecord(step, o, attempt) ==
    [step_number |-> step.step_number, attempt |-> attempt,
     deps_met |-> \A k \in 1..Len(step.depends_on) :
                     step.depends_on[k] \in succeeded,
     raised |-> o.raised,
     exc |-> o.exc,
     success |-> (~o.raised /\ o.tool_result.success),
     had_result |-> \E i \in 1..Len(results) :
                       results[i].step_number = step.step_number]

\* mutant: the entry is looked up by step number used as a list position
UpdateByStepNumber(rs, step_result) ==
    IF step_result.step_number <= Len(rs)
    THEN [rs EXCEPT ![step_result.step_number] = step_result]
    ELSE rs

\* mutant: the fresh result of a retry is dropped
UpdateNothing(rs, step_result) == rs

\* mutant: the fresh result of a retry is added at the end
UpdateByAppending(rs, step_result) == Append(rs, step_result)

\* retry_steps' "Update original results" loop: the first entry with the
\* step's number is overwritten, and nothing happens when there is none
UpdateOriginalResults(rs, step_result) ==
    LET hits == {i \in 1..Len(rs) :
                    rs[i].step_number = step_result.step_number}
    IN  IF hits = {} THEN rs
        ELSE LET first == CHOOSE i \in hits : \A j \in hits : i <= j
             IN  [rs EXCEPT ![first] = step_result]

\* retry_steps' steps_to_retry: the plan's steps named in steps, plan order
StepsToRetry(steps, plan_steps) ==
    SelectSeq(plan_steps,
              LAMBDA s : \E k \in 1..Len(steps) : steps[k] = s.step_number)

(***************************************************************************)
(* VerifierAgent.                                                          *)
(***************************************************************************)
VComplete == "complete"
VPartial == "partial"
VFailed == "failed"

\* sum(1 for r in results if r.tool_result.success)
SuccessfulSteps(rs) == Len(SelectSeq(rs, LAMBDA r : r.tool_result.success))

\* mutant: the quotient is taken with integer division
CompletenessFloored(rs) ==
    IF Len(rs) = 0 THEN [num |-> 0, den |-> 1]
    ELSE [num |-> SuccessfulSteps(rs) \div Len(rs), den |-> 1]

\* successful_steps / total_steps, and the 0.0 of the empty case
Completeness(rs) ==
    IF Len(rs) = 0 THEN [num |-> 0, den |-> 1]
    ELSE [num |-> SuccessfulSteps(rs), den |-> Len(rs)]

\* mutant: the first threshold is tested with > in place of >=
StatusOfStrict(completeness) ==
    IF completeness.num * 10 > 9 * completeness.den THEN VComplete
    ELSE IF completeness.num * 10 >= 5 * completeness.den THEN VPartial
    ELSE VFailed

\* completeness >= 0.9, then completeness >= 0.5
StatusOf(completeness) ==
    IF completeness.num * 10 >= 9 * completeness.den THEN VComplete
    ELSE IF completeness.num * 10 >= 5 * completeness.den THEN VPartial
    ELSE VFailed

\* the step_numbers of the failed results, in sequence order
FailedStepNumbers(rs) ==
    LET failed == SelectSeq(rs, LAMBDA r : ~r.tool_result.success)
    IN  [i \in 1..Len(failed) |-> failed[i].step_number]

\* VerifierAgent._verify_results
VerifyResults(rs) ==
    IF Len(rs) = 0
    THEN [status |-> VFailed, completeness_score |-> Completeness(rs),
          retry_steps |-> <<>>]
    ELSE [status |-> StatusOf(Completeness(rs)),
          completeness_score |-> Completeness(rs),
          retry_steps |-> Take(FailedStepNumbers(rs), 3)]

\* VerifierAgent._format_output's status string
OutputStatus(verification) ==
    IF verification.status = VComplete THEN "success"
    ELSE IF verification.status = VPartial THEN "partial"
    ELSE "failed"

\* bool(x) of a payload, which is a list here: the empty list is false
Truthy(x) == x # <<>>

\* _format_output's test "success and data" for taking a result's payload
Contributes(r) ==
    /\ r.tool_result.success
    /\ r.tool_result.data # None
    /\ Truthy(r.tool_result.data[1])

\* the key f"{tool}_{action}" of a result
ToolKey(r) == r.tool_result.tool \o "_" \o r.tool_result.action

\* _format_output's collected_data: a later result of the same key
\* overwrites an earlier one
CollectedData(rs) ==
    LET from == {i \in 1..Len(rs) : Contributes(rs[i])}
        last(key) == CHOOSE i \in from :
                        /\ ToolKey(rs[i]) = key
                        /\ \A j \in from : ToolKey(rs[j]) = key => j <= i
    IN  [key \in {ToolKey(rs[i]) : i \in from} |->
            rs[last(key)].tool_result.data[1]]

\* VerifierAgent._format_output
FormatOutput(rs, verification) ==
    [status |-> OutputStatus(verification),
     data |-> CollectedData(rs),
     execution_details |->
        [steps_total |-> Len(rs),
         steps_succeeded |-> SuccessfulSteps(rs),
         steps_failed |->
            Len(SelectSeq(rs, LAMBDA r : ~r.tool_result.success)),
         completeness_score |-> verification.completeness_score]]

\* VerifierAgent.run
VerifierOutput(rs) == FormatOutput(rs, VerifyResults(rs))

(***************************************************************************)
(* Orchestrator.                                                           *)
(***************************************************************************)
OrchestratorResult(st, out, pl, err) ==
    [state |-> st, output |-> out, plan |-> pl, error |-> err]

\* mutant: the empty-plan test never fires
PlanRejectedNever(plan_steps) == FALSE

\* run's "if not plan.steps"
PlanRejected(plan_steps) == plan_steps = <<>>

\* the result run returns for a plan without steps
EmptyPlanResult(plan_steps) ==
    OrchestratorResult(ERROR, None, Some(plan_steps), Some(EmptyPlanError))

\* mutant: the handler forgets the message
HandlerResultNoMessage(exc) == OrchestratorResult(ERROR, None, None, None)

\* the result run's "except Exception" handler returns
HandlerResult(exc) == OrchestratorResult(ERROR, None, None, Some(exc))

\* mutant: a run that ends while still partial is reported as an error
CompleteResultPartialIsError(out, plan_steps) ==
    IF out.status = "partial"
    THEN OrchestratorResult(ERROR, Some(out), Some(plan_steps),
                            Some("retries exhausted"))
    ELSE OrchestratorResult(COMPLETE, Some(out), Some(plan_steps), None)

\* the result run returns at its end
CompleteResult(out, plan_steps) ==
    OrchestratorResult(COMPLETE, Some(out), Some(plan_steps), None)

\* run's guard of the call of _handle_retries
NeedsRetries(out, retries) == out.status = "partial" /\ retries > 0

\* mutant: the loop allows one attempt too many
LoopGuardOffByOne(out, count, retries) ==
    out.status = "partial" /\ count <= retries

\* _handle_retries' while condition
LoopGuard(out, count, retries) == out.status = "partial" /\ count < retries

\* _handle_retries' failed_steps: one more than the list index of each
\* failed result
FailedSteps(rs) ==
    SelectSeq([i \in 1..Len(rs) |-> i],
              LAMBDA i : ~rs[i].tool_result.success)

\* mutant: every failed step is handed over
RetryLimitNone(failed_steps) == failed_steps

\* the slice of failed_steps handed to retry_steps
RetryLimit(failed_steps) == Take(failed_steps, 3)

\* What the run does once a verification returned out, up to its next
\* suspension: another turn of _handle_retries' loop, or completion.
AfterVerification(out, count, first) ==
    IF (first => NeedsRetries(out, max_retries))
         /\ LoopGuard(out, count, max_retries)
         /\ FailedSteps(results) # <<>>
    THEN [pc |-> "retry_steps", state |-> RETRYING,
          retry_count |-> count + 1,
          steps_to_retry |->
              StepsToRetry(RetryLimit(FailedSteps(results)), plan),
          retry_args |->
              Append(retry_args, RetryLimit(FailedSteps(results))),
          result |-> None]
    ELSE [pc |-> "returned", state |-> COMPLETE,
          retry_count |->
              IF (first => NeedsRetries(out, max_retries))
                    /\ LoopGuard(out, count, max_retries)
              THEN count + 1 ELSE count,
          steps_to_retry |-> <<>>,
          retry_args |-> retry_args,
          result |-> Some(CompleteResult(out, plan))]

(***************************************************************************)
(* The run.                                                                *)
(***************************************************************************)
InitWith(inputs) ==
    /\ \E in \in inputs :
          /\ max_retries = in[1]
          /\ llm_response = Some(in[2])
    /\ pc = "idle"
    /\ state = IDLE
    /\ plan = <<>>
    /\ step_idx = 1
    /\ completed_steps = {}
    /\ results = <<>>
    /\ output = None
    /\ retry_count = 0
    /\ steps_to_retry = <<>>
    /\ retry_results = <<>>
    /\ result = None
    /\ calls = <<>>
    /\ succeeded = {}
    /\ retry_args = <<>>
    /\ verifier_calls = 0
    /\ verified = 0
    /\ executor_runs = 0
    /\ planned = None
    /\ failure = None
    /\ tool_faults = 0
    /\ api_cache = <<>>
    /\ now = 0
    /\ cache_log = <<>>
    /\ cache_metrics = [hits |-> 0, misses |-> 0]
    /\ cache_tasks = <<>>
    /\ request_count = 0
    /\ generate_attempt = 0
    /\ structured_attempt = 0
    /\ llm_log = <<>>

Init == InitWith(RunInputs)

InitLong == InitWith(LongRunInputs)

\* run up to the Planner's LLM call
RunStart ==
    /\ pc = "idle"
    /\ state' = PLANNING
    /\ pc' = "planner"
    /\ UNCHANGED <<max_retries, llm_response, plan, step_idx,
                   completed_steps, results, output, retry_count,
                   steps_to_retry, retry_results, result, calls, succeeded,
                   retry_args, verifier_calls, verified, executor_runs,
                   tool_faults, planned,
                   failure>>
    /\ UNCHANGED <<cache_vars, llm_vars>>

\* the plan PlannerAgent.run returns for an LLM answer: the validated plan,
\* or the fallback plan without steps when generate_structured failed
PlannerPlan(response) ==
    IF response.ok THEN ValidatePlan(response.steps, RegisteredTools)
    ELSE <<>>

\* planner.run returns; run rejects a plan without steps, and otherwise
\* starts executor.run (which empties ExecutorAgent.results)
PlannerRun ==
    /\ pc = "planner"
    /\ plan' = PlannerPlan(llm_response[1])
    /\ IF PlanRejected(plan')
       THEN /\ result' = Some(EmptyPlanResult(plan'))
            /\ pc' = "returned"
            /\ UNCHANGED <<state, executor_runs>>
       ELSE /\ state' = EXECUTING
            /\ pc' = "executor"
            /\ executor_runs' = executor_runs + 1
            /\ UNCHANGED result
    /\ results' = <<>>
    /\ step_idx' = 1
    /\ completed_steps' = {}
    /\ llm_response' = None
    /\ planned' = Some([validated |-> llm_response[1].ok,
                        raw_len |-> Len(llm_response[1].steps)])
    /\ UNCHANGED <<max_retries, output, retry_count, steps_to_retry,
                   retry_results, calls, succeeded, retry_args,
                   verifier_calls, verified, tool_faults, failure>>
    /\ UNCHANGED <<cache_vars, llm_vars>>

\* planner.run raises before its own try block: run's handler takes over
PlannerFault ==
    /\ pc = "planner"
    /\ \E exc \in {"planner crashed"} :
          /\ failure' = Some(exc)
          /\ result' = Some(HandlerResult(exc))
    /\ state' = ERROR
    /\ pc' = "returned"
    /\ UNCHANGED <<max_retries, llm_response, plan, step_idx,
                   completed_steps, results, output, retry_count,
                   steps_to_retry, retry_results, calls, succeeded,
                   retry_args, verifier_calls, verified, executor_runs,
                   tool_faults, planned>>
    /\ UNCHANGED <<cache_vars, llm_vars>>

\* the StepResult the first pass records for dispatch o of step
FirstPassResult(step, o) ==
    IF o.raised THEN FailedStepResult(step, o.exc)
    ELSE StepResultOf(step, o.tool_result)

\* one turn of ExecutorAgent.run's loop over plan.steps
ExecStep ==
    /\ pc = "executor"
    /\ step_idx <= Len(plan)
    /\ LET step == plan[step_idx] IN
       IF ~DependenciesMet(step, completed_steps)
       THEN UNCHANGED <<results, completed_steps, calls, succeeded,
                        tool_faults>>
       ELSE \E o \in Dispatches(step) :
              /\ results' = Append(results, FirstPassResult(step, o))
              /\ completed_steps' =
                    IF ~o.raised /\ o.tool_result.success
                    THEN completed_steps \cup {step.step_number}
                    ELSE completed_steps
              /\ calls' = Append(calls, CallRecord(step, o, 0))
              /\ succeeded' =
                    IF ~o.raised /\ o.tool_result.success
                    THEN succeeded \cup {step.step_number}
                    ELSE succeeded
              /\ tool_faults' =
                    tool_faults
                        + (IF o.raised /\ step.tool \in RegisteredTools
                           THEN 1 ELSE 0)
    /\ step_idx' = step_idx + 1
    /\ UNCHANGED <<pc, state, max_retries, llm_response, plan, output,
                   retry_count, steps_to_retry, retry_results, result,
                   retry_args, verifier_calls, verified, executor_runs, planned,
                   failure>>
    /\ UNCHANGED <<cache_vars, llm_vars>>

\* executor.run returns its results; run moves on to the Verifier's call
ExecutorReturn ==
    /\ pc = "executor"
    /\ step_idx > Len(plan)
    /\ state' = VERIFYING
    /\ pc' = "verifier"
    /\ UNCHANGED <<max_retries, llm_response, plan, step_idx,
                   completed_steps, results, output, retry_count,
                   steps_to_retry, retry_results, result, calls, succeeded,
                   retry_args, verifier_calls, verified, executor_runs,
                   tool_faults, planned,
                   failure>>
    /\ UNCHANGED <<cache_vars, llm_vars>>

\* the first verifier.run returns, and run goes on to its next suspension
VerifierRun ==
    /\ pc = "verifier"
    /\ LET out == VerifierOutput(results)
           nxt == AfterVerification(out, 0, TRUE)
       IN  /\ output' = Some(out)
           /\ pc' = nxt.pc
           /\ state' = nxt.state
           /\ retry_count' = nxt.retry_count
           /\ steps_to_retry' = nxt.steps_to_retry
           /\ retry_args' = nxt.retry_args
           /\ result' = nxt.result
    /\ retry_results' = <<>>
    /\ verifier_calls' = verifier_calls + 1
    /\ verified' = verified + 1
    /\ UNCHANGED <<max_retries, llm_response, plan, step_idx,
                   completed_steps, results, calls, succeeded,
                   executor_runs, tool_faults, planned,
                   failure>>
    /\ UNCHANGED <<cache_vars, llm_vars>>

\* verifier.run raises (its fallback summary is outside any try block)
VerifierFault ==
    /\ pc \in {"verifier", "reverifier"}
    /\ \E exc \in {"verifier crashed"} :
          /\ failure' = Some(exc)
          /\ result' = Some(HandlerResult(exc))
    /\ state' = ERROR
    /\ pc' = "returned"
    /\ verifier_calls' = verifier_calls + 1
    /\ UNCHANGED <<max_retries, llm_response, plan, step_idx,
                   completed_steps, results, output, retry_count,
                   steps_to_retry, retry_results, calls, succeeded,
                   retry_args, verified, executor_runs, tool_faults, planned>>
    /\ UNCHANGED <<cache_vars, llm_vars>>

\* one turn of ExecutorAgent.retry_steps' loop over steps_to_retry
RetryStep ==
    /\ pc = "retry_steps"
    /\ steps_to_retry # <<>>
    /\ LET step == Head(steps_to_retry) IN
       \E o \in Dispatches(step) :
          /\ IF o.raised
             THEN UNCHANGED <<results, retry_results>>
             ELSE /\ retry_results' =
                        Append(retry_results,
                               StepResultOf(step, o.tool_result))
                  /\ results' =
                        UpdateOriginalResults(
                            results, StepResultOf(step, o.tool_result))
          /\ calls' = Append(calls, CallRecord(step, o, retry_count))
          /\ succeeded' =
                IF ~o.raised /\ o.tool_result.success
                THEN succeeded \cup {step.step_number}
                ELSE succeeded
          /\ tool_faults' =
                tool_faults
                    + (IF o.raised /\ step.tool \in RegisteredTools
                       THEN 1 ELSE 0)
    /\ steps_to_retry' = Tail(steps_to_retry)
    /\ UNCHANGED <<pc, state, max_retries, llm_response, plan, step_idx,
                   completed_steps, output, retry_count, result,
                   retry_args, verifier_calls, verified, executor_runs, planned,
                   failure>>
    /\ UNCHANGED <<cache_vars, llm_vars>>

\* mutant: retry_steps never hands control back to _handle_retries
RetryNeverReturns ==
    /\ pc = "retry_steps"
    /\ steps_to_retry = <<>>
    /\ state' = VERIFYING
    /\ UNCHANGED <<pc, max_retries, llm_response, plan, step_idx,
                   completed_steps, results, output, retry_count,
                   steps_to_retry, retry_results, result, calls, succeeded,
                   retry_args, verifier_calls, verified, executor_runs,
                   tool_faults, planned,
                   failure>>
    /\ UNCHANGED <<cache_vars, llm_vars>>

\* retry_steps returns; _handle_retries moves on to the re-verification
RetryReturn ==
    /\ pc = "retry_steps"
    /\ steps_to_retry = <<>>
    /\ state' = VERIFYING
    /\ pc' = "reverifier"
    /\ UNCHANGED <<max_retries, llm_response, plan, step_idx,
                   completed_steps, results, output, retry_count,
                   steps_to_retry, retry_results, result, calls, succeeded,
                   retry_args, verifier_calls, verified, executor_runs,
                   tool_faults, planned,
                   failure>>
    /\ UNCHANGED <<cache_vars, llm_vars>>

\* the results _handle_retries hands to the re-verification
ReverifiedResults == results

\* a re-verification returns, and _handle_retries tests its loop again
ReVerifierRun ==
    /\ pc = "reverifier"
    /\ LET out == VerifierOutput(ReverifiedResults)
           nxt == AfterVerification(out, retry_count, FALSE)
       IN  /\ output' = Some(out)
           /\ pc' = nxt.pc
           /\ state' = nxt.state
           /\ retry_count' = nxt.retry_count
           /\ steps_to_retry' = nxt.steps_to_retry
           /\ retry_args' = nxt.retry_args
           /\ result' = nxt.result
    /\ retry_results' = <<>>
    /\ verifier_calls' = verifier_calls + 1
    /\ verified' = verified + 1
    /\ UNCHANGED <<max_retries, llm_response, plan, step_idx,
                   completed_steps, results, calls, succeeded,
                   executor_runs, tool_faults, planned,
                   failure>>
    /\ UNCHANGED <<cache_vars, llm_vars>>

Next ==
    \/ RunStart
    \/ PlannerRun
    \/ PlannerFault
    \/ ExecStep
    \/ ExecutorReturn
    \/ VerifierRun
    \/ VerifierFault
    \/ RetryStep
    \/ RetryReturn
    \/ ReVerifierRun

Spec == Init /\ [][Next]_vars

\* The run under the scheduling the program has: the event loop resumes the
\* one coroutine of the run whenever the call it awaits has returned or
\* failed, and every LLM call and tool call does so eventually.
SpecLive == Init /\ [][Next]_vars /\ WF_vars(Next)

SpecLong == InitLong /\ [][Next]_vars

(***************************************************************************)
(* The Verifier on its own: verifier.run called once on a StepResult       *)
(* sequence of any length up to MaxVerifyLen.                              *)
(***************************************************************************)
VerifierInputs ==
    UNION {{[i \in 1..k |->
                StepResultOf(RawStep(i, "github", <<>>), tr[i].tool_result)] :
               tr \in [1..k -> {b \in ToolBehaviours : ~b.raised}]} :
           k \in 0..MaxVerifyLen}

\* the ToolResults of the sequences given to the Verifier for its output
\* assembly: success with a payload, with another, with an empty list, with
\* no payload, and failure
OutputToolResults ==
    {ToolResultData(TRUE, Some(<<"payload">>), None, 5),
     ToolResultData(TRUE, Some(<<"other">>), None, 5),
     ToolResultData(TRUE, Some(<<>>), None, 5),
     ToolResultData(TRUE, None, None, 5),
     ToolResultData(FALSE, None, Some("api error"), 5)}

\* short sequences over two tools and every such ToolResult
OutputInputs ==
    UNION {{[i \in 1..k |->
                StepResultOf(RawStep(i, tl[i], <<>>), tr[i])] :
               tl \in [1..k -> {"github", "news"}],
               tr \in [1..k -> OutputToolResults]} :
           k \in 0..MaxOutputLen}

InitVerifier ==
    /\ results \in VerifierInputs \cup OutputInputs
    /\ pc = "verify"
    /\ state = IDLE
    /\ max_retries = DefaultMaxRetries
    /\ llm_response = None
    /\ plan = <<>>
    /\ step_idx = 1
    /\ completed_steps = {}
    /\ output = None
    /\ retry_count = 0
    /\ steps_to_retry = <<>>
    /\ retry_results = <<>>
    /\ result = None
    /\ calls = <<>>
    /\ succeeded = {}
    /\ retry_args = <<>>
    /\ verifier_calls = 0
    /\ verified = 0
    /\ executor_runs = 0
    /\ planned = None
    /\ failure = None
    /\ tool_faults = 0
    /\ api_cache = <<>>
    /\ now = 0
    /\ cache_log = <<>>
    /\ cache_metrics = [hits |-> 0, misses |-> 0]
    /\ cache_tasks = <<>>
    /\ request_count = 0
    /\ generate_attempt = 0
    /\ structured_attempt = 0
    /\ llm_log = <<>>

\* VerifierAgent.run on the sequence in hand
VerifierCall ==
    /\ pc = "verify"
    /\ output' = Some(VerifierOutput(results))
    /\ verifier_calls' = verifier_calls + 1
    /\ verified' = verified + 1
    /\ pc' = "verified"
    /\ UNCHANGED <<state, max_retries, llm_response, plan, step_idx,
                   completed_steps, results, retry_count, steps_to_retry,
                   retry_results, result, calls, succeeded, retry_args,
                   executor_runs, planned, failure, tool_faults>>
    /\ UNCHANGED <<cache_vars, llm_vars>>

NextVerifier == VerifierCall

SpecVerifier == InitVerifier /\ [][NextVerifier]_vars

(***************************************************************************)
(* The Executor on its own: ExecutorAgent.run on a plan that need not have *)
(* passed the Planner's validation (its tools may be unknown to the        *)
(* registry), followed by one retry_steps call with a list of the caller's *)
(* choosing.  retry_count numbers the retry_steps calls here.              *)
(***************************************************************************)
ExecutorTools == {"github", "foo"}
ExecutorDepends == {<<>>, <<1>>}

ExecutorPlans ==
    UNION {{[i \in 1..k |-> RawStep(i, tl[i], dp[i])] :
               tl \in [1..k -> ExecutorTools],
               dp \in [1..k -> ExecutorDepends]} :
           k \in 1..MaxExecSteps}

\* the step-number lists a caller passes to retry_steps: one or two
\* different numbers, in either order
CallerLists ==
    {<<a>> : a \in 1..MaxExecSteps}
        \cup {<<ab[1], ab[2]>> :
                 ab \in {p \in (1..MaxExecSteps) \X (1..MaxExecSteps) :
                            p[1] # p[2]}}

InitExecutor ==
    /\ plan \in ExecutorPlans
    /\ pc = "executor"
    /\ state = EXECUTING
    /\ max_retries = DefaultMaxRetries
    /\ llm_response = None
    /\ step_idx = 1
    /\ completed_steps = {}
    /\ results = <<>>
    /\ output = None
    /\ retry_count = 0
    /\ steps_to_retry = <<>>
    /\ retry_results = <<>>
    /\ result = None
    /\ calls = <<>>
    /\ succeeded = {}
    /\ retry_args = <<>>
    /\ verifier_calls = 0
    /\ verified = 0
    /\ executor_runs = 1
    /\ planned = None
    /\ failure = None
    /\ tool_faults = 0
    /\ api_cache = <<>>
    /\ now = 0
    /\ cache_log = <<>>
    /\ cache_metrics = [hits |-> 0, misses |-> 0]
    /\ cache_tasks = <<>>
    /\ request_count = 0
    /\ generate_attempt = 0
    /\ structured_attempt = 0
    /\ llm_log = <<>>

\* run has returned, and retry_steps is called: it builds steps_to_retry
RetryStepsCall ==
    /\ pc = "executor"
    /\ step_idx > Len(plan)
    /\ \E steps \in CallerLists :
          /\ retry_args' = Append(retry_args, steps)
          /\ steps_to_retry' = StepsToRetry(steps, plan)
    /\ retry_results' = <<>>
    /\ retry_count' = retry_count + 1
    /\ pc' = "retry_steps"
    /\ UNCHANGED <<state, max_retries, llm_response, plan, step_idx,
                   completed_steps, results, output, result, calls,
                   succeeded, verifier_calls, verified, executor_runs,
                   planned, failure, tool_faults>>
    /\ UNCHANGED <<cache_vars, llm_vars>>

\* retry_steps returns retry_results to its caller
RetryStepsReturn ==
    /\ pc = "retry_steps"
    /\ steps_to_retry = <<>>
    /\ pc' = "retried"
    /\ UNCHANGED <<run_vars, cache_vars, llm_vars>>

NextExecutor ==
    \/ ExecStep
    \/ RetryStepsCall
    \/ RetryStep
    \/ RetryStepsReturn

SpecExecutor == InitExecutor /\ [][NextExecutor]_vars

(***************************************************************************)
(* The Planner's validation on its own: _validate_plan on any plan the LLM *)
(* can answer with, against any content of the registry, followed, when    *)
(* the registry is the one the program builds, by the Executor's first     *)
(* pass over the validated plan.                                           *)
(***************************************************************************)
\* tool names in an LLM answer: registered names, aliases in either case,
\* and a name nothing knows
RawTools == {"github", "git", "GIT", "newsapi", "foo"}

RawPlans ==
    UNION {{[i \in 1..k |-> RawStep(i, tl[i], dp[i])] :
               tl \in [1..k -> RawTools], dp \in [1..k -> RichDepends]} :
           k \in 0..MaxRawSteps}

\* the contents a registry can have: get_tool_registry's tools, fewer of
\* them, or a tool registered under a name that is also an alias
RegistryContents == {RegisteredTools} \cup SUBSET {"github", "news", "git"}

InitPlanner ==
    /\ llm_response \in {Some(PlanResponse(p)) : p \in RawPlans}
    /\ pc = "validate"
    /\ state = PLANNING
    /\ max_retries = DefaultMaxRetries
    /\ plan = <<>>
    /\ step_idx = 1
    /\ completed_steps = {}
    /\ results = <<>>
    /\ output = None
    /\ retry_count = 0
    /\ steps_to_retry = <<>>
    /\ retry_results = <<>>
    /\ result = None
    /\ calls = <<>>
    /\ succeeded = {}
    /\ retry_args = <<>>
    /\ verifier_calls = 0
    /\ verified = 0
    /\ executor_runs = 0
    /\ planned = None
    /\ failure = None
    /\ tool_faults = 0
    /\ api_cache = <<>>
    /\ now = 0
    /\ cache_log = <<>>
    /\ cache_metrics = [hits |-> 0, misses |-> 0]
    /\ cache_tasks = <<>>
    /\ request_count = 0
    /\ generate_attempt = 0
    /\ structured_attempt = 0
    /\ llm_log = <<>>

\* _validate_plan is applied to the LLM's plan; with the program's own
\* registry the validated plan then goes to ExecutorAgent.run
ValidateCall ==
    /\ pc = "validate"
    /\ \E available_tools \in RegistryContents :
          /\ plan' = ValidatePlan(llm_response[1].steps, available_tools)
          /\ planned' = Some([validated |-> TRUE,
                              raw_len |-> Len(llm_response[1].steps),
                              available_tools |-> available_tools])
          /\ IF available_tools = RegisteredTools /\ plan' # <<>>
             THEN /\ pc' = "executor"
                  /\ state' = EXECUTING
                  /\ executor_runs' = executor_runs + 1
             ELSE /\ pc' = "validated"
                  /\ UNCHANGED <<state, executor_runs>>
    /\ UNCHANGED <<max_retries, llm_response, step_idx, completed_steps,
                   results, output, retry_count, steps_to_retry,
                   retry_results, result, calls, succeeded, retry_args,
                   verifier_calls, verified, failure, tool_faults>>
    /\ UNCHANGED <<cache_vars, llm_vars>>

NextPlanner ==
    \/ ValidateCall
    \/ ExecStep

SpecPlanner == InitPlanner /\ [][NextPlanner]_vars

(***************************************************************************)
(* utils.cache: the process-wide TTLCache and the cached_api_call          *)
(* decorator around the tools' API operations.  An entry of the cache is   *)
(* [value, expires]; the cache is a function from the stored keys.  Its    *)
(* maxsize of 1000 is never reached here, so nothing is evicted for size.  *)
(***************************************************************************)
\* the ttl of _api_cache, in seconds
ApiCacheTTL == 300

\* the wrapped operations of each tool, with the ttl_seconds their decorator
\* is given (which the decorator never reads)
GitHubCachedOps ==
    {[name |-> "_search_repositories", ttl_seconds |-> 300]}

WeatherCachedOps ==
    {[name |-> "_get_current_weather", ttl_seconds |-> 600],
     [name |-> "_get_forecast", ttl_seconds |-> 1800]}

NewsCachedOps ==
    {[name |-> "_get_top_headlines", ttl_seconds |-> 900]}

\* every function wrapped by cached_api_call in the calls explored
CachedOps ==
    GitHubCachedOps \cup WeatherCachedOps \cup NewsCachedOps

\* _make_cache_key: the digest of the function name and the arguments' str,
\* taken as injective
MakeCacheKey(func_name, args, kwargs) == <<func_name, args, kwargs>>

\* TTLCache.__contains__: the key is stored and has not expired
CacheContains(cache, key, t) ==
    key \in DOMAIN cache /\ t < cache[key].expires

\* TTLCache.__setitem__: expired entries are dropped, the new one expires
\* one ttl from now
CacheStore(cache, key, value, t) ==
    LET live == {k \in DOMAIN cache : t < cache[k].expires}
    IN  [k \in live \cup {key} |->
            IF k = key THEN [value |-> value, expires |-> t + ApiCacheTTL]
            ELSE cache[k]]

\* what a wrapped operation does when it runs at time t: a ToolResult from
\* _timed_result (success, or the failure of a rejected request), or an
\* exception of the HTTP client
UnderlyingOutcomes(start_time, t) ==
    {[raised |-> FALSE,
      value |-> ToolResultData(TRUE, Some(<<"payload">>), None,
                               (t - start_time) * 1000)],
     [raised |-> FALSE,
      value |-> ToolResultData(FALSE, None, Some("api error"),
                               (t - start_time) * 1000)],
     [raised |-> TRUE,
      value |-> ToolResultData(FALSE, None, None, 0)]}

\* the entry of the history for one call of a wrapped operation
CacheLogEntry(op, start_time, query, skip_cache, hit, o) ==
    [func |-> op.name, start_time |-> start_time, query |-> query,
     skip_cache |-> skip_cache, at |-> now, hit |-> hit,
     raised |-> (~hit /\ o.raised),
     result |-> IF hit THEN Some(api_cache[
                        MakeCacheKey(op.name, <<start_time>>,
                                     [query |-> query])].value)
                ELSE IF o.raised THEN None
                ELSE Some(o.value)]

\* the arguments the wrapped operations are called with
CacheQueries == {"python"}

\* the elapsed times between two events at the cache
TimeSteps == {100, 300}

InitCache ==
    /\ pc = "cache"
    /\ state = IDLE
    /\ max_retries = DefaultMaxRetries
    /\ llm_response = None
    /\ plan = <<>>
    /\ step_idx = 1
    /\ completed_steps = {}
    /\ results = <<>>
    /\ output = None
    /\ retry_count = 0
    /\ steps_to_retry = <<>>
    /\ retry_results = <<>>
    /\ result = None
    /\ calls = <<>>
    /\ succeeded = {}
    /\ retry_args = <<>>
    /\ verifier_calls = 0
    /\ verified = 0
    /\ executor_runs = 0
    /\ planned = None
    /\ failure = None
    /\ tool_faults = 0
    /\ api_cache = <<>>
    /\ now = 0
    /\ cache_log = <<>>
    /\ cache_metrics = [hits |-> 0, misses |-> 0]
    /\ cache_tasks = <<>>
    /\ request_count = 0
    /\ generate_attempt = 0
    /\ structured_attempt = 0
    /\ llm_log = <<>>

\* mutant: the bypass flag is ignored
BypassesNever(skip_cache) == FALSE

\* the wrapper's test of the bypass flag, kwargs.pop("skip_cache", False)
Bypasses(skip_cache) == skip_cache

\* _cache_metrics after a call that was a hit, a miss, or bypassed the cache
CountCall(metrics, bypass, hit) ==
    IF bypass THEN metrics
    ELSE IF hit THEN [metrics EXCEPT !.hits = @ + 1]
    ELSE [metrics EXCEPT !.misses = @ + 1]

\* one call of cached_api_call's wrapper, from entry to return or raise
CachedCall ==
    /\ pc = "cache"
    /\ Len(cache_log) < MaxCacheCalls
    /\ \E op \in CachedOps, start_time \in {0, now}, query \in CacheQueries,
          skip_cache \in BOOLEAN :
          \E o \in UnderlyingOutcomes(start_time, now) :
             LET key == MakeCacheKey(op.name, <<start_time>>,
                                     [query |-> query])
                 bypass == Bypasses(skip_cache)
                 hit == ~bypass /\ CacheContains(api_cache, key, now)
             IN  /\ api_cache' =
                       IF bypass \/ hit \/ o.raised THEN api_cache
                       ELSE CacheStore(api_cache, key, o.value, now)
                 /\ cache_metrics' = CountCall(cache_metrics, bypass, hit)
                 /\ cache_log' =
                       Append(cache_log,
                              CacheLogEntry(op, start_time, query,
                                            skip_cache, hit, o))
    /\ UNCHANGED <<pc, now, cache_tasks, run_vars, llm_vars>>

\* time passes
Tick ==
    /\ pc = "cache"
    /\ \E dt \in TimeSteps :
          /\ now + dt <= MaxClock
          /\ now' = now + dt
    /\ UNCHANGED <<pc, api_cache, cache_log, cache_metrics, cache_tasks,
                   run_vars, llm_vars>>

NextCache ==
    \/ CachedCall
    \/ Tick

SpecCache == InitCache /\ [][NextCache]_vars

(***************************************************************************)
(* cached_api_call's wrapper run by concurrent tasks of one event loop.    *)
(* A task is suspended only at the wrapper's await of the wrapped          *)
(* operation: what precedes it (the bypass test, the key, the lookup and   *)
(* the counters) and what follows it (the store and the return) each run   *)
(* without interruption.                                                   *)
(***************************************************************************)
\* the number of tasks that call the wrapper
MaxCacheTasks == 2

\* the tasks suspended in the wrapped operation that were called with the
\* arguments of key and do not bypass the cache
AwaitingSame(tasks, key) ==
    {u \in 1..Len(tasks) :
        /\ tasks[u].pc = "awaiting"
        /\ ~tasks[u].skip_cache
        /\ MakeCacheKey(tasks[u].func, <<tasks[u].start_time>>,
                        [query |-> tasks[u].query]) = key}

\* a task calls the wrapper, which runs up to its return of the stored
\* value (a hit) or up to the await of the wrapped operation
WrapperEnter ==
    /\ pc = "cache"
    /\ Len(cache_tasks) < MaxCacheTasks
    /\ \E op \in CachedOps, query \in CacheQueries, skip_cache \in BOOLEAN :
          LET start_time == now
              key == MakeCacheKey(op.name, <<start_time>>,
                                  [query |-> query])
              bypass == Bypasses(skip_cache)
              hit == ~bypass /\ CacheContains(api_cache, key, now)
          IN  /\ cache_metrics' = CountCall(cache_metrics, bypass, hit)
              /\ cache_tasks' =
                    Append(cache_tasks,
                           [func |-> op.name, start_time |-> start_time,
                            query |-> query, skip_cache |-> skip_cache,
                            pc |-> IF hit THEN "done" ELSE "awaiting",
                            hit |-> hit,
                            invoked |-> ~hit,
                            overlapped |-> AwaitingSame(cache_tasks, key),
                            raised |-> FALSE,
                            result |-> IF hit THEN Some(api_cache[key].value)
                                       ELSE None])
    /\ UNCHANGED <<pc, now, api_cache, cache_log, run_vars, llm_vars>>

\* the wrapped operation of a suspended task returns or raises, and the
\* wrapper runs to its end
WrapperResume ==
    /\ pc = "cache"
    /\ \E t \in 1..Len(cache_tasks) :
          /\ cache_tasks[t].pc = "awaiting"
          /\ \E o \in UnderlyingOutcomes(cache_tasks[t].start_time, now) :
                LET task == cache_tasks[t]
                    key == MakeCacheKey(task.func, <<task.start_time>>,
                                        [query |-> task.query])
                IN  /\ api_cache' =
                          IF Bypasses(task.skip_cache) \/ o.raised
                          THEN api_cache
                          ELSE CacheStore(api_cache, key, o.value, now)
                    /\ cache_tasks' =
                          [cache_tasks EXCEPT
                              ![t].pc = "done",
                              ![t].raised = o.raised,
                              ![t].result = IF o.raised THEN None
                                            ELSE Some(o.value)]
    /\ UNCHANGED <<pc, now, cache_log, cache_metrics, run_vars, llm_vars>>

NextCacheTasks ==
    \/ WrapperEnter
    \/ WrapperResume

SpecCacheTasks == InitCache /\ [][NextCacheTasks]_vars

(***************************************************************************)
(* LLMClient: generate_structured awaits generate, and each of the two is  *)
(* wrapped in its own tenacity retry that re-runs the function after any   *)
(* exception and gives up, raising RetryError, after its last attempt.     *)
(***************************************************************************)
\* stop_after_attempt of the retry around generate
GenerateStopAfterAttempt == 3
\* stop_after_attempt of the retry around generate_structured
StructuredStopAfterAttempt == 3

\* what one request to the model can come to: generate_content raises, or
\* returns text without JSON, with JSON the schema rejects, or with JSON
\* the schema accepts
ModelResponses == {"raises", "no_json", "schema_invalid", "valid"}

\* generate_structured's try block: _extract_json and model_validate succeed
ParsesAsSchema(response) == response = "valid"

InitLLM ==
    /\ pc = "llm_idle"
    /\ state = IDLE
    /\ max_retries = DefaultMaxRetries
    /\ llm_response = None
    /\ plan = <<>>
    /\ step_idx = 1
    /\ completed_steps = {}
    /\ results = <<>>
    /\ output = None
    /\ retry_count = 0
    /\ steps_to_retry = <<>>
    /\ retry_results = <<>>
    /\ result = None
    /\ calls = <<>>
    /\ succeeded = {}
    /\ retry_args = <<>>
    /\ verifier_calls = 0
    /\ verified = 0
    /\ executor_runs = 0
    /\ planned = None
    /\ failure = None
    /\ tool_faults = 0
    /\ api_cache = <<>>
    /\ now = 0
    /\ cache_log = <<>>
    /\ cache_metrics = [hits |-> 0, misses |-> 0]
    /\ cache_tasks = <<>>
    /\ request_count = 0
    /\ generate_attempt = 0
    /\ structured_attempt = 0
    /\ llm_log = <<>>

\* generate_structured is called: its first attempt starts the first attempt
\* of generate
GenerateStructured ==
    /\ pc = "llm_idle"
    /\ structured_attempt' = 1
    /\ generate_attempt' = 1
    /\ pc' = "generate"
    /\ UNCHANGED <<request_count, llm_log, run_vars, cache_vars>>

\* where an attempt of generate_structured that ended in an exception
\* leads: the next attempt, or RetryError out of the call
AfterStructuredFailure(attempt) ==
    IF attempt < StructuredStopAfterAttempt
    THEN [pc |-> "generate", structured_attempt |-> attempt + 1,
          generate_attempt |-> 1]
    ELSE [pc |-> "llm_failed", structured_attempt |-> attempt,
          generate_attempt |-> generate_attempt]

\* one attempt of generate: the request is counted and sent, and the code
\* runs on to the next request or to the end of the call
Generate ==
    /\ pc = "generate"
    /\ request_count' = request_count + 1
    /\ \E response \in ModelResponses :
          /\ llm_log' = Append(llm_log, response)
          /\ IF response = "raises"
             THEN IF generate_attempt < GenerateStopAfterAttempt
                  THEN /\ generate_attempt' = generate_attempt + 1
                       /\ UNCHANGED <<pc, structured_attempt>>
                  ELSE LET nxt == AfterStructuredFailure(structured_attempt)
                       IN  /\ pc' = nxt.pc
                           /\ structured_attempt' = nxt.structured_attempt
                           /\ generate_attempt' = nxt.generate_attempt
             ELSE IF ParsesAsSchema(response)
                  THEN /\ pc' = "llm_returned"
                       /\ UNCHANGED <<generate_attempt, structured_attempt>>
                  ELSE LET nxt == AfterStructuredFailure(structured_attempt)
                       IN  /\ pc' = nxt.pc
                           /\ structured_attempt' = nxt.structured_attempt
                           /\ generate_attempt' = nxt.generate_attempt
    /\ UNCHANGED <<run_vars, cache_vars>>

NextLLM ==
    \/ GenerateStructured
    \/ Generate

SpecLLM == InitLLM /\ [][NextLLM]_vars

(***************************************************************************)
(* Properties.                                                             *)
(***************************************************************************)
\* the positions of rs that hold a successful result
SuccessPositions(rs) == {i \in 1..Len(rs) : rs[i].tool_result.success}

\* the calls of the history made by targeted retries
RetryCalls == {i \in 1..Len(calls) : calls[i].attempt > 0}

\* C1: Orchestrator.run never raises: a run stops only by returning, what it
\* returns is an OrchestratorResult whose state is COMPLETE or ERROR, and an
\* ERROR result carries the failure message in error (the message of the
\* exception caught, or the empty-plan message).
C1_RunAlwaysReturnsResult ==
    /\ (~ENABLED Next) => pc = "returned"
    /\ pc = "returned" =>
          /\ result # None
          /\ result[1].state \in {COMPLETE, ERROR}
          /\ result[1].state = ERROR =>
                result[1].error =
                    (IF failure # None THEN failure
                     ELSE Some(EmptyPlanError))
          /\ failure # None => result[1].state = ERROR

\* a run that ended in the handler of an exception raised by the Verifier
\* after retries had begun
C1_Witness ==
    /\ pc = "returned"
    /\ failure = Some("verifier crashed")
    /\ retry_count > 0
    /\ result[1].state = ERROR
    /\ result[1].error = Some("verifier crashed")

\* C2: whenever the Planner yields a plan without steps, run returns
\* state=ERROR, output=None and the empty-plan message as error, and the
\* Executor, the Verifier and the tools are never invoked.
C2_EmptyPlanIsError ==
    (planned # None /\ plan = <<>>) =>
        /\ pc = "returned"
        /\ result # None
        /\ result[1].state = ERROR
        /\ result[1].output = None
        /\ result[1].error = Some(EmptyPlanError)
        /\ executor_runs = 0
        /\ verifier_calls = 0
        /\ calls = <<>>

\* a run whose LLM answer was a valid plan of which validation dropped
\* every step
C2_Witness ==
    /\ planned # None
    /\ planned[1].validated
    /\ planned[1].raw_len = MaxSteps
    /\ plan = <<>>
    /\ pc = "returned"
    /\ result[1].state = ERROR

\* C3 (as claimed): at every registry invocation of a run, first pass and
\* targeted retries alike, every step the invoked step depends on has had
\* a tool call report success earlier in the run.
C3_DependenciesMetAtEveryCall ==
    \A i \in 1..Len(calls) : calls[i].deps_met

\* the StepResult a retry's dispatch produced, when this step of the run is
\* a dispatch of retry_steps that returned a ToolResult
RetryDispatched ==
    /\ pc = "retry_steps"
    /\ Len(calls') = Len(calls) + 1
    /\ ~calls'[Len(calls')].raised

FreshResult == retry_results'[Len(retry_results')]

\* C4: a targeted retry of a step that has a StepResult puts the fresh
\* result at that entry's index, leaves every other entry and the order of
\* the step_numbers as they were, and no retry shortens the sequence.
C4_RetryReplacesInPlace ==
    [][/\ pc = "retry_steps" => Len(results') >= Len(results)
       /\ (RetryDispatched /\ calls'[Len(calls')].had_result) =>
             /\ Len(results') = Len(results)
             /\ \A i \in 1..Len(results) :
                   /\ results'[i].step_number = results[i].step_number
                   /\ results'[i] =
                         IF results[i].step_number = FreshResult.step_number
                         THEN FreshResult
                         ELSE results[i]
             /\ \E i \in 1..Len(results) : results'[i] = FreshResult]_vars

\* a retry has turned the failed entry of a step into a successful one, at
\* a position that is not the step's number
C4_Witness ==
    \E c \in RetryCalls :
        /\ calls[c].had_result
        /\ calls[c].success
        /\ \E i \in 1..Len(results) :
              /\ results[i].step_number = calls[c].step_number
              /\ results[i].tool_result.success
              /\ i # results[i].step_number

\* C5 (as claimed): a targeted retry of a plan step that has no StepResult
\* appends the fresh StepResult, so the sequence grows by one.
C5_RetryAppendsMissing ==
    [][(RetryDispatched /\ ~calls'[Len(calls')].had_result) =>
          results' = Append(results, FreshResult)]_vars

\* C6: the completeness_score of a verification is successes / entries for
\* a non-empty sequence; for the empty one it is 0 and the status failed.
C6_CompletenessScore ==
    (pc = "verified") =>
        LET score == output[1].execution_details.completeness_score
            total == Len(results)
            good == Cardinality(SuccessPositions(results))
        IN  /\ score.den > 0
            /\ total > 0 => score.num * total = good * score.den
            /\ total = 0 => (score.num = 0 /\ output[1].status = "failed")

\* a verified sequence with both outcomes whose score is not a whole number
C6_Witness ==
    /\ pc = "verified"
    /\ Len(results) = 3
    /\ Cardinality(SuccessPositions(results)) = 2
    /\ output[1].execution_details.completeness_score = [num |-> 2, den |-> 3]

\* C7: for a non-empty sequence the status is "success" exactly when
\* successes/total >= 0.9, "partial" exactly when it is in [0.5, 0.9), and
\* "failed" exactly when it is below 0.5.
C7_StatusThresholds ==
    (pc = "verified" /\ Len(results) > 0) =>
        LET total == Len(results)
            good == Cardinality(SuccessPositions(results))
            status == output[1].status
        IN  /\ status \in {"success", "partial", "failed"}
            /\ status = "success" <=> 10 * good >= 9 * total
            /\ status = "partial" <=>
                  (2 * good >= total /\ 10 * good < 9 * total)
            /\ status = "failed" <=> 2 * good < total

\* a sequence that sits exactly on the 0.9 threshold and is a success
C7_Witness ==
    /\ pc = "verified"
    /\ Len(results) = 10
    /\ Cardinality(SuccessPositions(results)) = 9
    /\ output[1].status = "success"

\* the positions of rs that hold a failed result
FailurePositions(rs) == {i \in 1..Len(rs) : ~rs[i].tool_result.success}

\* C8: a run makes at most max_retries retry attempts, each hands at most
\* 3 step numbers to the Executor's targeted retry, and each is followed
\* by exactly one re-verification, made over the Executor's whole result
\* sequence.
C8_RetriesBounded ==
    /\ retry_count <= max_retries
    /\ Len(retry_args) <= max_retries
    /\ \A k \in 1..Len(retry_args) : Len(retry_args[k]) \in 1..3
    /\ pc \in {"retry_steps", "reverifier"} =>
          verifier_calls = Len(retry_args)
    /\ (pc = "returned" /\ verifier_calls > 0) =>
          verifier_calls = Len(retry_args) + 1
    /\ (pc = "returned" /\ verified > 0 /\ verified = verifier_calls) =>
          LET details == output[1].execution_details
          IN  /\ details.steps_total = Len(results)
              /\ details.steps_succeeded =
                    Cardinality(SuccessPositions(results))

\* a run that used both attempts of the default budget, handing over 3 step
\* numbers each time while more than 3 results had failed, and re-verified
\* after each
C8_Witness ==
    /\ pc = "returned"
    /\ max_retries = DefaultMaxRetries
    /\ Len(retry_args) = max_retries
    /\ \A k \in 1..Len(retry_args) : Len(retry_args[k]) = 3
    /\ Cardinality(FailurePositions(results)) > 3
    /\ Cardinality(RetryCalls) = 6
    /\ verified = 3

\* C9: the orchestrator enters RETRYING only from VERIFYING, and only when
\* the latest verification is partial and fewer than max_retries attempts
\* were made; when the first verification is success or failed, or
\* max_retries is 0, no step is re-executed and the state goes from
\* VERIFYING straight to COMPLETE.
C9_RetryingOnlyFromPartialVerifying ==
    [][/\ (state' = RETRYING /\ state # RETRYING) =>
             /\ state = VERIFYING
             /\ verified' = verified + 1
             /\ output'[1].status = "partial"
             /\ retry_count < max_retries
       /\ (verified = 0 /\ verified' = 1
             /\ (output'[1].status \in {"success", "failed"}
                   \/ max_retries = 0)) =>
             /\ state = VERIFYING
             /\ state' = COMPLETE
             /\ pc' = "returned"
             /\ retry_args' = <<>>
             /\ RetryCalls = {}]_vars

\* a run with max_retries = 0 whose only verification was partial and that
\* completed without any retry
C9_Witness ==
    /\ pc = "returned"
    /\ max_retries = 0
    /\ verified = 1
    /\ output[1].status = "partial"
    /\ state = COMPLETE
    /\ retry_args = <<>>

\* C10: if the verification is still partial after max_retries retry
\* attempts, the run ends with state=COMPLETE, no error, and as output the
\* last verification's, whose status is "partial".
C10_ExhaustedRetriesComplete ==
    (/\ pc = "returned"
     /\ max_retries > 0
     /\ Len(retry_args) = max_retries
     /\ verified = max_retries + 1
     /\ output[1].status = "partial") =>
        /\ result[1].state = COMPLETE
        /\ state = COMPLETE
        /\ result[1].error = None
        /\ result[1].output = output
        /\ result[1].output[1].status = "partial"
        /\ output[1].execution_details.steps_total = Len(results)
        /\ output[1].execution_details.steps_succeeded =
              Cardinality(SuccessPositions(results))

\* a run with the default budget of 2 that is still partial after both
\* attempts
C10_Witness ==
    /\ pc = "returned"
    /\ max_retries = DefaultMaxRetries
    /\ Len(retry_args) = 2
    /\ verified = 3
    /\ output[1].status = "partial"
    /\ result[1].state = COMPLETE


\* the calls of the history made by the first pass
FirstPassCalls == {i \in 1..Len(calls) : calls[i].attempt = 0}

\* every depends_on entry of the plan names an earlier step
DependsOnEarlier(plan_steps) ==
    \A i \in 1..Len(plan_steps) :
        \A k \in 1..Len(plan_steps[i].depends_on) :
            plan_steps[i].depends_on[k] \in 1..(i - 1)

\* C11: for a validated non-empty plan whose depends_on entries only name
\* earlier steps and whose every tool call succeeds, the plan's steps are
\* invoked once each, in plan order, nothing is retried, and run returns
\* COMPLETE with output.status "success" and a completeness score of 1.0.
C11_AllSucceedCompletes ==
    (/\ planned # None
     /\ plan # <<>>
     /\ DependsOnEarlier(plan)
     /\ \A i \in 1..Len(calls) : calls[i].success
     /\ failure = None) =>
        /\ Len(calls) <= Len(plan)
        /\ \A i \in 1..Len(calls) :
              calls[i].step_number = i /\ calls[i].attempt = 0
        /\ pc \in {"verifier", "returned"} => Len(calls) = Len(plan)
        /\ retry_args = <<>>
        /\ pc \notin {"retry_steps", "reverifier"}
        /\ pc = "returned" =>
              /\ result[1].state = COMPLETE
              /\ result[1].error = None
              /\ result[1].output = output
              /\ output[1].status = "success"
              /\ output[1].execution_details.completeness_score.num =
                    output[1].execution_details.completeness_score.den
              /\ output[1].execution_details.steps_total = Len(plan)

\* a completed run of a plan of MaxSteps steps chained by their dependencies,
\* every call of which succeeded
C11_Witness ==
    /\ pc = "returned"
    /\ Len(plan) = MaxSteps
    /\ plan[2].depends_on = <<1>>
    /\ plan[3].depends_on = <<2>>
    /\ Len(calls) = MaxSteps
    /\ \A i \in 1..Len(calls) : calls[i].success
    /\ result[1].state = COMPLETE
    /\ output[1].status = "success"

\* the first pass of a 3-step plan whose step 2 depends on step 1 is over,
\* step 1 having failed and step 3 succeeded
ScenarioB ==
    /\ Len(plan) = 3
    /\ plan[2].depends_on = <<1>>
    /\ pc # "executor"
    /\ Len(calls) >= 1
    /\ calls[1].step_number = 1
    /\ calls[1].attempt = 0
    /\ ~calls[1].success
    /\ \E c \in FirstPassCalls :
          calls[c].step_number = 3 /\ calls[c].success

\* C12: in that scenario the first pass leaves StepResults for steps 1 and 3
\* only, the first verification scores 0.5 and is partial, the first retry
\* attempt re-invokes step 1 and nothing else, and when that call succeeds
\* the re-verification scores 1.0 with status success.
C12_ScenarioB ==
    [][/\ ScenarioB' =>
             /\ Cardinality(FirstPassCalls') = 2
             /\ Len(results') = 2
             /\ results'[1].step_number = 1
             /\ results'[2].step_number = 3
       /\ (ScenarioB /\ verified = 0 /\ verified' = 1) =>
             LET score == output'[1].execution_details.completeness_score
             IN  /\ 2 * score.num = score.den
                 /\ output'[1].status = "partial"
                 /\ max_retries > 0 =>
                       /\ state' = RETRYING
                       /\ retry_args' = <<(<<1>>)>>
                       /\ steps_to_retry' = <<plan[1]>>
       /\ (ScenarioB' /\ Len(calls') > 2) =>
             /\ calls'[3].step_number = 1
             /\ calls'[3].attempt = 1
             /\ \A c \in 1..Len(calls') :
                   calls'[c].attempt = 1 => c = 3
       /\ (ScenarioB /\ verified = 1 /\ verified' = 2 /\ calls[3].success) =>
             LET score == output'[1].execution_details.completeness_score
             IN  /\ score.num = score.den
                 /\ score.den = 2
                 /\ output'[1].status = "success"
                 /\ result' # None
                 /\ result'[1].state = COMPLETE]_vars

\* a run of the scenario whose retry of step 1 succeeded and whose second
\* verification reported success
C12_Witness ==
    /\ ScenarioB
    /\ pc = "returned"
    /\ Len(calls) = 3
    /\ calls[3].step_number = 1
    /\ calls[3].success
    /\ verified = 2
    /\ output[1].status = "success"
    /\ Len(results) = 2

\* C13 (as claimed): of two calls of the same cache-wrapped operation with
\* identical arguments, the second made after the first returned and before
\* the ttl has run out, only the first invokes the underlying operation,
\* and the second returns a result marked cached.
C13_SecondCallIsCached ==
    \A i, j \in 1..Len(cache_log) :
        (/\ i < j
         /\ cache_log[i].func = cache_log[j].func
         /\ cache_log[i].start_time = cache_log[j].start_time
         /\ cache_log[i].query = cache_log[j].query
         /\ ~cache_log[i].skip_cache
         /\ ~cache_log[j].skip_cache
         /\ ~cache_log[i].hit
         /\ ~cache_log[i].raised
         /\ cache_log[j].at < cache_log[i].at + ApiCacheTTL) =>
            /\ cache_log[j].hit
            /\ cache_log[j].result # None
            /\ cache_log[j].result[1].cached

\* C14: every run eventually returns, with state COMPLETE or ERROR: the
\* Planning / Executing / Verifying / Retrying loop cannot go on forever.
C14_RunTerminates ==
    <>(/\ pc = "returned"
       /\ result # None
       /\ result[1].state \in {COMPLETE, ERROR})

\* a run that went round the retry loop as often as its budget allowed,
\* re-executing steps each time, and then returned
C14_Witness ==
    /\ pc = "returned"
    /\ max_retries = MaxRetriesArg
    /\ retry_count = max_retries
    /\ Cardinality(RetryCalls) >= max_retries
    /\ state \in {COMPLETE, ERROR}

\* C15 (as claimed): while one generate_structured call is in progress, and
\* when it has returned or failed, at most 3 requests have been sent to the
\* model, failed parses included.
C15_AtMostThreeRequests ==
    /\ request_count = Len(llm_log)
    /\ request_count <= 3

\* C16 (as claimed): the step numbers handed to the Executor's targeted
\* retry in an attempt are the step_number fields of the first (up to 3)
\* failed StepResults of the result sequence as it is at that moment.
C16_RetrySelectsByStepNumber ==
    [][retry_args' # retry_args =>
          /\ Len(retry_args') = Len(retry_args) + 1
          /\ retry_args'[Len(retry_args')] =
                Take(FailedStepNumbers(results), 3)]_vars

\* the number of registry invocations made for step s in attempt a (0 is
\* the first pass)
Invocations(s, a) ==
    Cardinality({c \in 1..Len(calls) :
                    calls[c].step_number = s /\ calls[c].attempt = a})

\* step s, which the first pass has gone by, had an unmet dependency when it
\* was reached: one that names s itself or a later step, or an earlier step
\* that did not succeed
SkippedInFirstPass(s) ==
    \E k \in 1..Len(plan[s].depends_on) :
        \/ plan[s].depends_on[k] >= s
        \/ plan[s].depends_on[k] \notin completed_steps

\* retry_steps call a has run to its end
RetryOver(a) == a < retry_count \/ pc # "retry_steps" \/ steps_to_retry = <<>>

\* C17: the first pass makes exactly one registry invocation for each step
\* it attempts and none for a step it skips for unmet dependencies; each
\* targeted retry makes exactly one for each plan step named in its list
\* and none for any other.
C17_OneInvocationPerStep ==
    /\ \A c \in 1..Len(calls) : calls[c].step_number \in 1..Len(plan)
    /\ \A s \in 1..Len(plan) :
          /\ Invocations(s, 0) =
                IF pc = "executor" /\ s >= step_idx THEN 0
                ELSE IF SkippedInFirstPass(s) THEN 0
                ELSE 1
          /\ \A a \in 1..Len(retry_args) :
                LET named == \E k \in 1..Len(retry_args[a]) :
                                retry_args[a][k] = s
                IN  /\ Invocations(s, a) <= (IF named THEN 1 ELSE 0)
                    /\ RetryOver(a) =>
                          Invocations(s, a) = (IF named THEN 1 ELSE 0)

\* a first pass that skipped a step without invoking anything for it,
\* followed by a finished retry of two named steps, the skipped one included
C17_Witness ==
    /\ pc = "retried"
    /\ Len(plan) = MaxExecSteps
    /\ \E s \in 1..Len(plan) :
          /\ SkippedInFirstPass(s)
          /\ Invocations(s, 0) = 0
          /\ Invocations(s, 1) = 1
    /\ Len(retry_args[1]) = 2
    /\ Cardinality(RetryCalls) = 2

\* the step numbers of the calls of retry attempt a, in the order made
RetryOrder(a) ==
    LET made == SelectSeq(calls, LAMBDA c : c.attempt = a)
    IN  [i \in 1..Len(made) |-> made[i].step_number]

\* C18 (as claimed): a targeted retry re-invokes the named steps in the
\* order of the caller's list, and the retry results it returns are in that
\* order too.
C18_RetryFollowsCallerOrder ==
    (pc = "retried") =>
        LET wanted == SelectSeq(retry_args[1],
                                LAMBDA n : n \in 1..Len(plan))
            returned == SelectSeq(
                            wanted,
                            LAMBDA n : \E c \in 1..Len(calls) :
                                          /\ calls[c].attempt = 1
                                          /\ calls[c].step_number = n
                                          /\ ~calls[c].raised)
        IN  /\ RetryOrder(1) = wanted
            /\ [i \in 1..Len(retry_results) |->
                    retry_results[i].step_number] = returned

\* this step of the first pass is a dispatch that raised
FirstPassFault ==
    /\ pc = "executor"
    /\ Len(calls') = Len(calls) + 1
    /\ calls'[Len(calls')].attempt = 0
    /\ calls'[Len(calls')].raised

\* C19: a fault raised by a dispatch of the first pass, the registry's
\* not-found fault included, stays inside ExecutorAgent.run: it is recorded
\* as a StepResult of that step with success=false, execution_time_ms=0 and
\* the fault's message as error, the step is not added to the completed
\* set, and the loop goes on with the next plan step.
C19_FirstPassFaultRecorded ==
    [][FirstPassFault =>
          LET fault == calls'[Len(calls')]
              recorded == results'[Len(results')]
          IN  /\ Len(results') = Len(results) + 1
              /\ SubSeq(results', 1, Len(results)) = results
              /\ recorded.step_number = plan[step_idx].step_number
              /\ fault.step_number = recorded.step_number
              /\ recorded.tool_result.tool = plan[step_idx].tool
              /\ ~recorded.tool_result.success
              /\ recorded.tool_result.execution_time_ms = 0
              /\ recorded.tool_result.error = Some(fault.exc)
              /\ plan[step_idx].tool \notin RegisteredTools =>
                    fault.exc = KeyErrorStr("Tool " \o plan[step_idx].tool
                                                \o " not found")
              /\ completed_steps' = completed_steps
              /\ recorded.step_number \notin completed_steps'
              /\ pc' = "executor"
              /\ step_idx' = step_idx + 1
              /\ failure' = None]_vars

\* a first pass that recorded the not-found fault of an unknown tool as a
\* failed result and then went on to invoke the next step successfully
C19_Witness ==
    /\ Len(calls) >= 2
    /\ calls[1].attempt = 0
    /\ calls[1].raised
    /\ calls[1].exc = KeyErrorStr("Tool foo not found")
    /\ calls[2].attempt = 0
    /\ calls[2].success
    /\ Len(results) >= 2
    /\ results[1].tool_result.error = Some(KeyErrorStr("Tool foo not found"))
    /\ results[1].tool_result.execution_time_ms = 0
    /\ results[2].tool_result.success

\* this step of a targeted retry is a dispatch that raised, for a step that
\* has an entry in the result sequence
RetryFault ==
    /\ pc = "retry_steps"
    /\ Len(calls') = Len(calls) + 1
    /\ calls'[Len(calls')].raised
    /\ calls'[Len(calls')].had_result

\* C20 (as claimed): a fault raised by a dispatch of a targeted retry stays
\* inside retry_steps and is handled as in the first pass: the step's entry
\* becomes a failed StepResult with zero execution time and the new fault's
\* message, and the remaining named steps are still retried.
C20_RetryFaultRecorded ==
    [][RetryFault =>
          LET fault == calls'[Len(calls')]
          IN  /\ pc' = "retry_steps"
              /\ steps_to_retry' = Tail(steps_to_retry)
              /\ failure' = None
              /\ Len(results') = Len(results)
              /\ \A i \in 1..Len(results) :
                    results[i].step_number = fault.step_number =>
                        /\ results'[i].step_number = fault.step_number
                        /\ ~results'[i].tool_result.success
                        /\ results'[i].tool_result.execution_time_ms = 0
                        /\ results'[i].tool_result.error = Some(fault.exc)]_vars

\* C21: once the first pass is over, and after every targeted retry, the
\* Executor's result sequence has at most one StepResult per step_number,
\* every entry names a step of the plan, a step the first pass skipped for
\* unmet dependencies has no entry, and the sequence is no longer than the
\* plan.
C21_ResultsWellFormed ==
    (planned # None /\ plan # <<>>) =>
        /\ \A i, j \in 1..Len(results) :
              results[i].step_number = results[j].step_number => i = j
        /\ \A i \in 1..Len(results) :
              results[i].step_number \in 1..Len(plan)
        /\ Len(results) <= Len(plan)
        /\ \A s \in 1..Len(plan) :
              (~(pc = "executor" /\ s >= step_idx) /\ SkippedInFirstPass(s)) =>
                  \A i \in 1..Len(results) : results[i].step_number # s

\* a run that made two retry attempts on a plan one step of which the first
\* pass had skipped: the skipped step is retried and still has no entry
C21_Witness ==
    /\ pc = "returned"
    /\ Len(retry_args) = 2
    /\ Len(results) < Len(plan)
    /\ \E s \in 1..Len(plan) :
          /\ SkippedInFirstPass(s)
          /\ \E c \in RetryCalls :
                calls[c].step_number = s /\ calls[c].success
          /\ \A i \in 1..Len(results) : results[i].step_number # s

\* the alias table of the Planner's repair pass as a table: the names it
\* knows and the tool each stands for
AliasOf ==
    [github_tool |-> "github", weather_tool |-> "weather",
     news_tool |-> "news", git |-> "github", openweathermap |-> "weather",
     newsapi |-> "news"]

\* step of an LLM plan outlives validation against the registry content
Survives(step, available_tools) ==
    \/ step.tool \in available_tools
    \/ /\ Lower(step.tool) \in DOMAIN AliasOf
       /\ AliasOf[Lower(step.tool)] \in available_tools

\* the positions of the LLM plan's steps that outlive validation, ascending
SurvivorPositions(raw, available_tools) ==
    SelectSeq([j \in 1..Len(raw) |-> j],
              LAMBDA j : Survives(raw[j], available_tools))

\* C22: after validation every step's tool is registered, the step_numbers
\* are 1..N in the steps' original relative order, a step with a registered
\* tool is always kept as it is, and a step with an unregistered tool is
\* kept exactly when its lowercase tool name is an alias of a registered
\* tool, to which its tool is rewritten.
C22_ValidatedPlanWellFormed ==
    (planned # None) =>
        LET raw == llm_response[1].steps
            available_tools == planned[1].available_tools
            kept == SurvivorPositions(raw, available_tools)
        IN  /\ Len(plan) = Len(kept)
            /\ \A i \in 1..Len(plan) :
                  /\ plan[i].step_number = i
                  /\ plan[i].tool \in available_tools
                  /\ plan[i].action = raw[kept[i]].action
                  /\ plan[i].tool =
                        IF raw[kept[i]].tool \in available_tools
                        THEN raw[kept[i]].tool
                        ELSE AliasOf[Lower(raw[kept[i]].tool)]

\* a validation that dropped one step, kept one for an upper-case alias,
\* rewriting it, and kept a registered one, renumbering both
C22_Witness ==
    /\ planned # None
    /\ planned[1].available_tools = RegisteredTools
    /\ Len(llm_response[1].steps) = 3
    /\ llm_response[1].steps[1].tool = "foo"
    /\ llm_response[1].steps[2].tool = "GIT"
    /\ llm_response[1].steps[3].tool = "github"
    /\ Len(plan) = 2
    /\ plan[1].tool = "github"
    /\ plan[1].step_number = 1
    /\ plan[2].step_number = 2

\* C23: validation leaves the depends_on of every surviving step as the LLM
\* wrote it, whatever it drops and renumbers, and in the first pass a step
\* is invoked only when each number in its depends_on is that of an earlier
\* step whose call succeeded: a step with a reference to itself, to a later
\* step or to no step is never invoked.
C23_DependsOnUntouched ==
    (planned # None) =>
        LET raw == llm_response[1].steps
            kept == SurvivorPositions(raw, planned[1].available_tools)
        IN  /\ Len(plan) = Len(kept)
            /\ \A i \in 1..Len(plan) :
                  plan[i].depends_on = raw[kept[i]].depends_on
            /\ \A c \in FirstPassCalls :
                  LET step == plan[calls[c].step_number]
                  IN  \A k \in 1..Len(step.depends_on) :
                         /\ step.depends_on[k] < step.step_number
                         /\ \E b \in 1..(c - 1) :
                               /\ calls[b].step_number = step.depends_on[k]
                               /\ calls[b].success

\* an LLM plan whose first step is dropped, so that its second step becomes
\* step 1 and keeps a depends_on of [1], now naming itself; the third step,
\* now step 2, keeps [2]; the first pass is over and invoked neither
C23_Witness ==
    /\ planned # None
    /\ planned[1].available_tools = RegisteredTools
    /\ Len(llm_response[1].steps) = 3
    /\ llm_response[1].steps[1].tool = "foo"
    /\ Len(plan) = 2
    /\ plan[1].depends_on = <<1>>
    /\ plan[2].depends_on = <<2>>
    /\ pc = "executor"
    /\ step_idx > Len(plan)
    /\ calls = <<>>

\* C24 (as claimed): the data map of the FinalOutput has the key
\* "<tool>_<action>" exactly when some StepResult of that tool and action
\* succeeded with a payload that is not null, an empty one included, and
\* the value is the payload of the last such StepResult.
C24_DataFromSuccessfulSteps ==
    (pc = "verified") =>
        LET data == output[1].data
            gives(i, key) ==
                /\ results[i].tool_result.tool \o "_"
                       \o results[i].tool_result.action = key
                /\ results[i].tool_result.success
                /\ results[i].tool_result.data # None
        IN  \A key \in DOMAIN data \cup {"github_search", "news_search"} :
                /\ key \in DOMAIN data <=>
                      \E i \in 1..Len(results) : gives(i, key)
                /\ key \in DOMAIN data =>
                      \E i \in 1..Len(results) :
                          /\ gives(i, key)
                          /\ \A j \in (i + 1)..Len(results) : ~gives(j, key)
                          /\ data[key] = results[i].tool_result.data[1]

\* this step is a call of a wrapped operation made with the bypass flag
BypassCall ==
    /\ Len(cache_log') = Len(cache_log) + 1
    /\ cache_log'[Len(cache_log')].skip_cache

\* C25: a call made with the bypass flag invokes the underlying operation,
\* is never answered with a stored entry, and leaves the cache's contents
\* and its hit and miss counters as they were.
C25_BypassLeavesCacheAlone ==
    [][BypassCall =>
          LET call == cache_log'[Len(cache_log')]
          IN  /\ ~call.hit
              /\ call.raised <=> call.result = None
              /\ api_cache' = api_cache
              /\ cache_metrics' = cache_metrics]_vars

\* a bypass call that invoked the operation although the cache held a live
\* entry for its very arguments, written by the one call counted as a miss
C25_Witness ==
    /\ Len(cache_log) = 2
    /\ ~cache_log[1].skip_cache
    /\ cache_log[2].skip_cache
    /\ cache_log[1].func = cache_log[2].func
    /\ cache_log[1].start_time = cache_log[2].start_time
    /\ cache_log[2].at < cache_log[1].at + ApiCacheTTL
    /\ ~cache_log[2].hit
    /\ cache_log[2].result # None
    /\ CacheContains(api_cache,
                     MakeCacheKey(cache_log[2].func,
                                  <<cache_log[2].start_time>>,
                                  [query |-> cache_log[2].query]),
                     now)
    /\ cache_metrics = [hits |-> 0, misses |-> 1]

\* the ttl_seconds the operation named func is wrapped with
ConfiguredTTL(func) ==
    (CHOOSE op \in CachedOps : op.name = func).ttl_seconds

\* calls i and j have the same arguments, neither bypasses the cache, i
\* wrote the entry and nothing rewrote it before j
WrittenThenRead(i, j) ==
    /\ i < j
    /\ cache_log[i].func = cache_log[j].func
    /\ cache_log[i].start_time = cache_log[j].start_time
    /\ cache_log[i].query = cache_log[j].query
    /\ ~cache_log[i].skip_cache
    /\ ~cache_log[j].skip_cache
    /\ ~cache_log[i].hit
    /\ ~cache_log[i].raised
    /\ \A k \in (i + 1)..(j - 1) :
          \/ cache_log[k].func # cache_log[i].func
          \/ cache_log[k].start_time # cache_log[i].start_time
          \/ cache_log[k].skip_cache
          \/ cache_log[k].hit
          \/ cache_log[k].raised

\* C26 (as claimed): an entry written by an operation wrapped with TTL t is
\* served to an identical call made less than t seconds after the write,
\* and not to one made t seconds or more after it, t being the ttl_seconds
\* of that operation.
C26_PerOperationTTL ==
    \A i, j \in 1..Len(cache_log) :
        WrittenThenRead(i, j) =>
            (cache_log[j].hit <=>
                cache_log[j].at
                    < cache_log[i].at + ConfiguredTTL(cache_log[i].func))

\* call i was made by the tool's execute, which passes the clock reading
\* taken at its entry as start_time
ViaExecute(i) ==
    cache_log[i].start_time = cache_log[i].at

\* C27 (as claimed): of two execute calls of a tool with the same action and
\* parameters, the second made within the TTL of the first, the second is
\* served from the cache: the network operation runs once, the cache key
\* not depending on when the call started.
C27_SameParamsSameEntry ==
    \A i, j \in 1..Len(cache_log) :
        ( /\ i < j
          /\ ViaExecute(i)
          /\ ViaExecute(j)
          /\ cache_log[i].func = cache_log[j].func
          /\ cache_log[i].query = cache_log[j].query
          /\ ~cache_log[i].skip_cache
          /\ ~cache_log[j].skip_cache
          /\ ~cache_log[i].hit
          /\ ~cache_log[i].raised
          /\ cache_log[j].at < cache_log[i].at + ApiCacheTTL )
        => cache_log[j].hit

\* the changes of self.state the state path allows
AllowedStateChanges ==
    {<<IDLE, PLANNING>>, <<PLANNING, EXECUTING>>, <<EXECUTING, VERIFYING>>,
     <<VERIFYING, RETRYING>>, <<RETRYING, VERIFYING>>,
     <<VERIFYING, COMPLETE>>}
        \cup {<<s, ERROR>> : s \in {IDLE, PLANNING, EXECUTING, VERIFYING,
                                     RETRYING}}

\* C28 (as claimed): the observable state starts at IDLE, changes only along
\* IDLE -> PLANNING -> EXECUTING -> VERIFYING -> (RETRYING -> VERIFYING)*
\* -> COMPLETE or from a non-terminal state to ERROR, and once run has
\* returned get_state equals the state of the returned OrchestratorResult,
\* the zero-step plan (whose result is ERROR) included.
C28_ObservableStatePath ==
    /\ state = IDLE
    /\ [][state' # state => <<state, state'>> \in AllowedStateChanges]_vars
    /\ [](pc = "returned" => state = result[1].state)


\* the first verification was partial over at most 3 failed results, a
\* retry attempt was made, every call made by a retry so far has succeeded
\* and no agent has raised
RetriesAllSucceeded ==
    /\ max_retries >= 1
    /\ retry_args # <<>>
    /\ Cardinality({c \in FirstPassCalls : ~calls[c].success}) <= 3
    /\ \A c \in RetryCalls : calls[c].success
    /\ failure = None

\* C29 (as claimed): when the first verification is partial with at most 3
\* failed StepResults, max_retries >= 1 and every re-invocation succeeds,
\* the run ends COMPLETE with no failed StepResult left, and no retry
\* changes a StepResult that was successful, for every plan, those in which
\* a step skipped for unmet dependencies precedes a failed step included.
C29_RetriesRepairEveryFailure ==
    /\ []((pc = "returned" /\ RetriesAllSucceeded) =>
             /\ result[1].state = COMPLETE
             /\ FailurePositions(results) = {})
    /\ [][(pc = "retry_steps" /\ RetriesAllSucceeded') =>
             \A i \in SuccessPositions(results) :
                 results'[i] = results[i]]_vars

\* C30 (as claimed): when a cache-wrapped call is issued while another call
\* of the same operation with identical arguments is suspended inside the
\* underlying operation, the underlying operation is not invoked again: it
\* runs once for the two calls, under every interleaving.
C30_OverlappingCallsInvokeOnce ==
    \A t \in 1..Len(cache_tasks) :
        (~cache_tasks[t].skip_cache /\ cache_tasks[t].overlapped # {}) =>
            ~cache_tasks[t].invoked
====
